---- MODULE Spec2Model ----
(***************************************************************************)
(* Model of git_info_macro.py: the pure dictionary/string helpers and the  *)
(* Driver (main) that turns a metadata record into a JSON file, a C header *)
(* and a build-argument string.                                            *)
(*                                                                         *)
(* Python strings are sequences of one-character strings.  A Python value  *)
(* is a record [t, s, n]: t is the runtime type ("str", "bytes", "int"),   *)
(* s the characters of a str/bytes, n the number of an int.  A dict is the *)
(* sequence of its items [k, v] in insertion order, keys unique.           *)
(***************************************************************************)
EXTENDS Integers, Sequences, FiniteSets, TLC

VARIABLES
    pc,            \* position of main: the statement it executes next
    args,          \* docopt result: [json, header], TRUE when the path is given
    git_info,      \* main's local git_info (the dict object it names)
    hash_info,     \* main's local hash_info
    version_file,  \* main's local version_file (a string)
    build_args,    \* main's local build_args (a string)
    pending,       \* shlex.split(build_args) tokens not yet passed to eprint
    json_file,     \* the JSON file: <<>> if never written, else <<content>>
    header_file,   \* the header file: <<>> if never written, else <<text>>
    stdout,        \* the strings main has printed to sys.stdout, in order
    stderr,        \* the strings eprint has printed to sys.stderr, in order
                   \* (the interpreter's traceback of a failed run is not main's)
    log,           \* the order of output events ("json", "header", "stdout", "stderr")
    exc,           \* the exception that ended the run, "none" while there is none
    raw,           \* the record as collected (history of git_info at line 57)
    call           \* the helper call in progress: [fn, arg, res], res its outcome

vars == <<pc, args, git_info, hash_info, version_file, build_args, pending,
          json_file, header_file, stdout, stderr, log, exc, raw, call>>

driverVars == <<pc, args, git_info, hash_info, version_file, build_args, pending,
                json_file, header_file, stdout, stderr, log, exc, raw>>

----
(* Bounds of the model *)

MinHashLen == 6
MaxHashLen == 10
MaxMsgLen == 2
MaxBytesLen == 1
MaxEntries == 2

----
(* Python values *)

Str(s) == [t |-> "str", s |-> s, n |-> 0]
Bytes(s) == [t |-> "bytes", s |-> s, n |-> 0]
PyInt(n) == [t |-> "int", s |-> <<>>, n |-> n]

IsStr(v) == v.t = "str"

Item(k, v) == [k |-> k, v |-> v]

RECURSIVE Join(_, _)
Join(sep, parts) ==
    IF parts = <<>> THEN <<>>
    ELSE IF Len(parts) = 1 THEN parts[1]
    ELSE parts[1] \o sep \o Join(sep, Tail(parts))

Digit(d) == <<"0", "1", "2", "3", "4", "5", "6", "7", "8", "9">>[d + 1]

RECURSIVE Dec(_)
Dec(n) == IF n < 10 THEN <<Digit(n)>> ELSE Dec(n \div 10) \o <<Digit(n % 10)>>

Lower == <<"a", "b", "c", "d", "e", "f", "g", "h", "i", "j", "k", "l", "m", "n", "o", "p", "q", "r", "s", "t", "u", "v", "w", "x", "y", "z">>
Upper == <<"A", "B", "C", "D", "E", "F", "G", "H", "I", "J", "K", "L", "M", "N", "O", "P", "Q", "R", "S", "T", "U", "V", "W", "X", "Y", "Z">>

UpperChar(c) ==
    IF \E i \in 1..26 : Lower[i] = c
    THEN Upper[CHOOSE i \in 1..26 : Lower[i] = c]
    ELSE c

StrUpper(s) == [i \in 1..Len(s) |-> UpperChar(s[i])]

Count(s, c) == Cardinality({i \in 1..Len(s) : s[i] = c})

Replace(s, c) == SelectSeq(s, LAMBDA x : x # c)

----
(* Python built-ins used by the helpers *)

\* ReprChar with the line break left as it is
ReprCharRawNewline(c, q) ==
    IF c = q \/ c = "\\" THEN <<"\\", c>> ELSE <<c>>

\* one character of str.__repr__ with quote character q
ReprChar(c, q) ==
    IF c = q \/ c = "\\" THEN <<"\\", c>>
    ELSE IF c = "\n" THEN <<"\\", "n">>
    ELSE <<c>>

RECURSIVE ReprBody(_, _)
ReprBody(s, q) ==
    IF s = <<>> THEN <<>> ELSE ReprChar(Head(s), q) \o ReprBody(Tail(s), q)

\* str.__repr__: double quotes only when s holds a ' and no "
PyRepr(s) ==
    LET q == IF Count(s, "'") > 0 /\ Count(s, "\"") = 0 THEN "\"" ELSE "'"
    IN  <<q>> \o ReprBody(s, q) \o <<q>>

\* str(v)
PyStr(v) ==
    IF v.t = "int" THEN Dec(v.n)
    ELSE IF v.t = "bytes" THEN <<"b">> \o PyRepr(v.s)
    ELSE v.s

\* dct[k] = v on a dict: an existing key keeps its position
DictSet(dct, k, v) ==
    IF \E i \in 1..Len(dct) : dct[i].k = k
    THEN [i \in 1..Len(dct) |-> IF dct[i].k = k THEN Item(k, v) ELSE dct[i]]
    ELSE Append(dct, Item(k, v))

DictGet(dct, k) == dct[CHOOSE i \in 1..Len(dct) : dct[i].k = k].v

Keys(dct) == [i \in 1..Len(dct) |-> dct[i].k]

AllStrKeys(dct) == \A i \in 1..Len(dct) : IsStr(dct[i].k)
AllStrValues(dct) == \A i \in 1..Len(dct) : IsStr(dct[i].v)

\* the outcome of a call: the exception raised ("none" if it returned), the
\* value returned, the passed object's content after the call, and whether
\* the returned object is the passed object itself
Return(val, after, same) == [exc |-> "none", val |-> val, after |-> after, same |-> same]
Raise(e, after) == [exc |-> e, val |-> <<>>, after |-> after, same |-> FALSE]

----
(* The helpers of git_info_macro.py *)

\* gen_version_file_lines without the double quotes around the value
gen_version_file_lines_no_quotes(dct) ==
    IF ~AllStrKeys(dct) THEN Raise("TypeError", dct)
    ELSE IF ~AllStrValues(dct) THEN Raise("TypeError", dct)
    ELSE Return([i \in 1..Len(dct) |-> <<"#", "d", "e", "f", "i", "n", "e", " ">> \o dct[i].k.s \o <<" ">> \o dct[i].v.s],
                dct, FALSE)

gen_version_file_lines(dct) ==
    IF ~AllStrKeys(dct) THEN Raise("TypeError", dct)
    ELSE IF ~AllStrValues(dct) THEN Raise("TypeError", dct)
    ELSE Return([i \in 1..Len(dct) |->
                    <<"#", "d", "e", "f", "i", "n", "e", " ">> \o dct[i].k.s \o <<" ", "\"">> \o dct[i].v.s \o <<"\"">>],
                dct, FALSE)

RECURSIVE UpperInto(_, _)
UpperInto(new_dct, rest) ==
    IF rest = <<>> THEN new_dct
    ELSE UpperInto(DictSet(new_dct, Str(StrUpper(Head(rest).k.s)), Head(rest).v), Tail(rest))

upper_dict_keys(dct) ==
    IF ~AllStrKeys(dct) THEN Raise("TypeError", dct)
    ELSE Return(UpperInto(<<>>, dct), dct, FALSE)

\* StrValue without the conversion: the value is stored as it is
StrValueUnconverted(v) == v

\* the body of the loop of str_dict_values for one value: bytes are decoded,
\* then str() is applied (no Python 3 value has a type named 'unicode')
StrValue(v) == Str(PyStr(IF v.t = "bytes" THEN Str(v.s) ELSE v))

str_dict_values(dct) ==
    IF ~AllStrKeys(dct) THEN Raise("TypeError", dct)
    ELSE LET d == [i \in 1..Len(dct) |-> Item(dct[i].k, StrValue(dct[i].v))]
         IN  Return(d, d, TRUE)

\* ReprValue that keeps the single quotes of the rendering
ReprValueNoStrip(v) == Str(PyRepr(v.s))

\* the body of the loop of repr_dict_values for one (already str) value
ReprValue(v) == Str(Replace(PyRepr(v.s), "'"))

repr_dict_values(dct) ==
    IF ~AllStrKeys(dct) THEN Raise("TypeError", dct)
    ELSE LET s == str_dict_values(dct).after
             d == [i \in 1..Len(s) |-> Item(s[i].k, ReprValue(s[i].v))]
         IN  Return(d, d, TRUE)

RECURSIVE PrefixInto(_, _, _)
PrefixInto(new_dict, pfx, rest) ==
    IF rest = <<>> THEN new_dict
    ELSE PrefixInto(DictSet(new_dict, Str(pfx \o Head(rest).k.s), Head(rest).v), pfx, Tail(rest))

prefix_dict_keys(pfx, dct) ==
    IF ~IsStr(pfx) THEN Raise("TypeError", dct)
    ELSE IF ~AllStrKeys(dct) THEN Raise("TypeError", dct)
    ELSE Return(PrefixInto(<<>>, pfx.s, dct), dct, FALSE)

\* BuildArgPart with the key as it is, not upper-cased
BuildArgPartNoUpper(name, value) == <<"-", "D">> \o name \o <<"=">> \o PyRepr(value)

BuildArgPart(name, value) == <<"-", "D">> \o StrUpper(name) \o <<"=">> \o PyRepr(value)

gen_build_args_from_dict(dct) ==
    IF ~AllStrKeys(dct) THEN Raise("TypeError", dct)
    ELSE IF ~AllStrValues(dct) THEN Raise("TypeError", dct)
    ELSE Return(Join(<<" ">>, [i \in 1..Len(dct) |-> BuildArgPart(dct[i].k.s, dct[i].v.s)]),
                dct, FALSE)

min_length == 8

\* string_to_part_list whose range stops before the full length
string_to_part_list_short_range(string) ==
    IF ~IsStr(string) THEN Raise("TypeError", string)
    ELSE IF Len(string.s) < min_length THEN Raise("ValueError", string)
    ELSE Return([j \in 1..(Len(string.s) - min_length) |->
                    SubSeq(string.s, 1, min_length + j - 1)],
                string, FALSE)

\* string_to_part_list whose length test lets a string of min_length - 1 pass
string_to_part_list_lax_check(string) ==
    IF ~IsStr(string) THEN Raise("TypeError", string)
    ELSE IF Len(string.s) + 1 < min_length THEN Raise("ValueError", string)
    ELSE Return([j \in 1..(Len(string.s) + 1 - min_length) |->
                    SubSeq(string.s, 1, min_length + j - 1)],
                string, FALSE)

\* string_to_part_list without the length test
string_to_part_list_no_check(string) ==
    IF ~IsStr(string) THEN Raise("TypeError", string)
    ELSE Return([j \in 1..(Len(string.s) + 1 - min_length) |->
                    SubSeq(string.s, 1, min_length + j - 1)],
                string, FALSE)

string_to_part_list(string) ==
    IF ~IsStr(string) THEN Raise("TypeError", string)
    ELSE IF Len(string.s) < min_length THEN Raise("ValueError", string)
    ELSE Return([j \in 1..(Len(string.s) + 1 - min_length) |->
                    SubSeq(string.s, 1, min_length + j - 1)],
                string, FALSE)

HashKey(length) == <<"G", "I", "T", "_", "C", "O", "M", "M", "I", "T", "_", "H", "A", "S", "H", "_">> \o Dec(length) \o <<"_", "D", "I", "G", "I", "T", "S">>

RECURSIVE HashPairsInto(_, _)
HashPairsInto(hash_pairs, hash_parts) ==
    IF hash_parts = <<>> THEN hash_pairs
    ELSE HashPairsInto(DictSet(hash_pairs, Str(HashKey(Len(Head(hash_parts)))),
                               Str(Head(hash_parts))),
                       Tail(hash_parts))

get_hash_arg_pairs(hash) ==
    LET parts == string_to_part_list(hash)
    IN  IF parts.exc # "none" THEN Raise(parts.exc, hash)
        ELSE Return(HashPairsInto(<<>>, parts.val), hash, FALSE)

----
(* shlex.split(s): the POSIX tokenizer with whitespace_split, no comments *)

Whitespace == {" ", "\t", "\r", "\n"}
Quotes == {"'", "\""}

\* The tokenizer's state: st is shlex's state (" " between tokens, "a" in a
\* word, a quote character inside quotes, "\\" after an escape), est is
\* escapedstate, tok the token being read, out the tokens already read.
ShlexStart == [st |-> " ", est |-> "a", tok |-> <<>>, quoted |-> FALSE, out |-> <<>>]

\* read_token's handling of one character c
ShlexChar(x, c) ==
    IF x.st = " " THEN
        IF c \in Whitespace THEN [x EXCEPT !.tok = <<>>, !.quoted = FALSE]
        ELSE IF c = "\\" THEN [x EXCEPT !.st = "\\", !.est = "a"]
        ELSE IF c \in Quotes THEN [x EXCEPT !.st = c]
        ELSE [x EXCEPT !.st = "a", !.tok = <<c>>]
    ELSE IF x.st \in Quotes THEN
        IF c = x.st THEN [x EXCEPT !.st = "a", !.quoted = TRUE]
        ELSE IF c = "\\" /\ x.st = "\""
             THEN [x EXCEPT !.st = "\\", !.est = x.st, !.quoted = TRUE]
        ELSE [x EXCEPT !.tok = Append(x.tok, c), !.quoted = TRUE]
    ELSE IF x.st = "\\" THEN
        IF x.est \in Quotes /\ c # "\\" /\ c # x.est
        THEN [x EXCEPT !.st = x.est, !.tok = x.tok \o <<"\\", c>>]
        ELSE [x EXCEPT !.st = x.est, !.tok = Append(x.tok, c)]
    ELSE
        IF c \in Whitespace THEN
            IF x.tok # <<>> \/ x.quoted
            THEN [x EXCEPT !.st = " ", !.tok = <<>>, !.quoted = FALSE,
                           !.out = Append(x.out, x.tok)]
            ELSE [x EXCEPT !.st = " ", !.tok = <<>>, !.quoted = FALSE]
        ELSE IF c \in Quotes THEN [x EXCEPT !.st = c]
        ELSE IF c = "\\" THEN [x EXCEPT !.st = "\\", !.est = "a"]
        ELSE [x EXCEPT !.st = "a", !.tok = Append(x.tok, c)]

\* the characters s[lo..hi] read in order from state x (the test of left.st,
\* never "", makes TLC evaluate the first half before it reads the second)
RECURSIVE ShlexRead(_, _, _, _)
ShlexRead(s, lo, hi, x) ==
    IF lo > hi THEN x
    ELSE IF lo = hi THEN ShlexChar(x, s[lo])
    ELSE LET mid == (lo + hi) \div 2
             left == ShlexRead(s, lo, mid, x)
         IN  IF left.st = "" THEN left ELSE ShlexRead(s, mid + 1, hi, left)

\* the end of the input: an open quote or escape is an error
ShlexSplit(s) ==
    LET x == ShlexRead(s, 1, Len(s), ShlexStart)
    IN  IF x.st \in Quotes \/ x.st = "\\" THEN Raise("ValueError", s)
        ELSE IF x.st = "a" /\ (x.tok # <<>> \/ x.quoted)
             THEN Return(Append(x.out, x.tok), s, FALSE)
        ELSE Return(x.out, s, FALSE)

----
(* The Driver: main() *)

\* repo.head.commit.hexsha: a hexadecimal string.  The model draws it from
\* the prefixes of one hexadecimal string, short ones included.
HexBase == <<"1", "2", "3", "4", "5", "6", "7", "8", "9", "0", "a", "b", "c", "d", "e", "f">>
Hexshas == {SubSeq(HexBase, 1, n) : n \in MinHashLen..MaxHashLen}

\* the characters a commit message is made of in the model
MsgChars == {"a", " ", "'", "\"", "\\", "\n"}

RECURSIVE StringsUpTo(_, _)
StringsUpTo(chars, n) ==
    IF n = 0 THEN {<<>>}
    ELSE LET shorter == StringsUpTo(chars, n - 1)
         IN  shorter \cup {Append(s, c) : s \in {x \in shorter : Len(x) = n - 1}, c \in chars}

\* repo.head.commit.message: str, or bytes when GitPython could not decode it
Messages == {Str(s) : s \in StringsUpTo(MsgChars, MaxMsgLen)}
            \cup {Bytes(s) : s \in StringsUpTo(MsgChars, MaxBytesLen)}

\* format_time(...) returns a str in the pattern "%d.%m.%Y %H:%M:%S"
format_time == <<"0", "5", ".", "1", "0", ".", "2", "0", "1", "9", " ", "1", "2", ":", "0", "9", ":", "3", "0">>

GitInfo(hexsha, message) ==
    << Item(Str(<<"c", "o", "m", "m", "i", "t", "_", "h", "a", "s", "h">>), Str(hexsha)),
       Item(Str(<<"c", "o", "m", "m", "i", "t", "_", "h", "a", "s", "h", "_", "s", "h", "o", "r", "t">>), Str(SubSeq(hexsha, 1, IF Len(hexsha) < 8 THEN Len(hexsha) ELSE 8))),
       Item(Str(<<"b", "r", "a", "n", "c", "h">>), Str(<<"m", "a", "i", "n">>)),
       Item(Str(<<"a", "u", "t", "h", "o", "r">>), Str(<<"A", ".", " ", "U", "t", "h", "o", "r">>)),
       Item(Str(<<"a", "u", "t", "h", "o", "r", "e", "d", "_", "d", "a", "t", "e">>), Str(format_time)),
       Item(Str(<<"b", "u", "i", "l", "d", "_", "d", "a", "t", "e">>), Str(format_time)),
       Item(Str(<<"c", "o", "m", "m", "i", "t", "_", "m", "s", "g">>), message) >>

\* the order of characters json.dumps(sort_keys=True) sorts the keys by
CharOrder == <<"_">> \o Lower
Ord(c) == CHOOSE i \in 1..Len(CharOrder) : CharOrder[i] = c

RECURSIVE StrLess(_, _)
StrLess(a, b) ==
    IF b = <<>> THEN FALSE
    ELSE IF a = <<>> THEN TRUE
    ELSE IF Head(a) = Head(b) THEN StrLess(Tail(a), Tail(b))
    ELSE Ord(Head(a)) < Ord(Head(b))

\* the members of the JSON object in the order json.dumps writes them
JsonDumps(content) == SortSeq(content, LAMBDA x, y : StrLess(x.k.s, y.k.s))

Failed(e) ==
    /\ pc' = "error"
    /\ exc' = e

\* lines 47-57
Collect ==
    /\ pc = "collect"
    /\ \E hexsha \in Hexshas, message \in Messages :
          /\ git_info' = GitInfo(hexsha, message)
          /\ raw' = GitInfo(hexsha, message)
    /\ pc' = "json"
    /\ UNCHANGED <<args, hash_info, version_file, build_args, pending, json_file,
                   header_file, stdout, stderr, log, exc, call>>

\* WriteJson that escapes the values (repr_dict_values) before dumping them
WriteJsonEscaped ==
    /\ pc = "json"
    /\ args.json
    /\ LET content == repr_dict_values(git_info)
       IN  IF content.exc # "none"
           THEN Failed(content.exc) /\ UNCHANGED <<git_info, json_file, log>>
           ELSE /\ git_info' = content.after
                /\ json_file' = <<JsonDumps(content.val)>>
                /\ log' = Append(log, "json")
                /\ pc' = "escape"
                /\ UNCHANGED exc
    /\ UNCHANGED <<args, hash_info, version_file, build_args, pending, header_file,
                   stdout, stderr, raw, call>>

\* lines 59-67, --json given
WriteJson ==
    /\ pc = "json"
    /\ args.json
    /\ LET content == str_dict_values(git_info)
       IN  IF content.exc # "none"
           THEN Failed(content.exc) /\ UNCHANGED <<git_info, json_file, log>>
           ELSE /\ git_info' = content.after
                /\ json_file' = <<JsonDumps(content.val)>>
                /\ log' = Append(log, "json")
                /\ pc' = "escape"
                /\ UNCHANGED exc
    /\ UNCHANGED <<args, hash_info, version_file, build_args, pending, header_file,
                   stdout, stderr, raw, call>>

\* line 59, --json not given
SkipJson ==
    /\ pc = "json"
    /\ ~args.json
    /\ pc' = "escape"
    /\ UNCHANGED <<args, git_info, hash_info, version_file, build_args, pending,
                   json_file, header_file, stdout, stderr, log, exc, raw, call>>

\* lines 69-70 as a function of the dict git_info names
EscapedInfo(info) ==
    LET r == repr_dict_values(info)
    IN  IF r.exc # "none" THEN r ELSE prefix_dict_keys(Str(<<"g", "i", "t", "_">>), r.val)

\* lines 69-70
Escape ==
    /\ pc = "escape"
    /\ LET r == EscapedInfo(git_info)
       IN  IF r.exc # "none"
           THEN Failed(r.exc) /\ UNCHANGED git_info
           ELSE git_info' = r.val /\ pc' = "hash" /\ UNCHANGED exc
    /\ UNCHANGED <<args, hash_info, version_file, build_args, pending, json_file,
                   header_file, stdout, stderr, log, raw, call>>

\* lines 72-74 as a function of the dict git_info names
HashInfoOf(info) ==
    LET r == get_hash_arg_pairs(DictGet(info, Str(<<"g", "i", "t", "_", "c", "o", "m", "m", "i", "t", "_", "h", "a", "s", "h">>)))
    IN  IF r.exc # "none" THEN r ELSE repr_dict_values(r.val)

\* lines 72-74
HashInfo ==
    /\ pc = "hash"
    /\ LET r == HashInfoOf(git_info)
       IN  IF r.exc # "none"
           THEN Failed(r.exc) /\ UNCHANGED hash_info
           ELSE hash_info' = r.val /\ pc' = "version" /\ UNCHANGED exc
    /\ UNCHANGED <<args, git_info, version_file, build_args, pending, json_file,
                   header_file, stdout, stderr, log, raw, call>>

\* lines 76-79 as a function of the two dicts
VersionFileOf(info, hinfo) ==
    LET u == upper_dict_keys(info)
        a == gen_version_file_lines(u.val)
        b == gen_version_file_lines(hinfo)
    IN  IF u.exc # "none" THEN u
        ELSE IF a.exc # "none" THEN a
        ELSE IF b.exc # "none" THEN b
        ELSE Return(<<"#", "p", "r", "a", "g", "m", "a", " ", "o", "n", "c", "e", "\n">> \o Join(<<"\n">>, a.val \o b.val), info, FALSE)

\* lines 76-79
VersionFile ==
    /\ pc = "version"
    /\ LET r == VersionFileOf(git_info, hash_info)
       IN  IF r.exc # "none"
           THEN Failed(r.exc) /\ UNCHANGED version_file
           ELSE version_file' = r.val /\ pc' = "header" /\ UNCHANGED exc
    /\ UNCHANGED <<args, git_info, hash_info, build_args, pending, json_file,
                   header_file, stdout, stderr, log, raw, call>>

\* lines 81-83, --header given
WriteHeader ==
    /\ pc = "header"
    /\ args.header
    /\ header_file' = <<version_file>>
    /\ log' = Append(log, "header")
    /\ pc' = "build"
    /\ UNCHANGED <<args, git_info, hash_info, version_file, build_args, pending,
                   json_file, stdout, stderr, exc, raw, call>>

\* line 81, --header not given
SkipHeader ==
    /\ pc = "header"
    /\ ~args.header
    /\ pc' = "build"
    /\ UNCHANGED <<args, git_info, hash_info, version_file, build_args, pending,
                   json_file, header_file, stdout, stderr, log, exc, raw, call>>

\* lines 85-87 as a function of the two dicts
BuildArgsOf(info, hinfo) ==
    LET a == gen_build_args_from_dict(info)
        b == gen_build_args_from_dict(hinfo)
    IN  IF a.exc # "none" THEN a
        ELSE IF b.exc # "none" THEN b
        ELSE Return(a.val \o <<" ">> \o b.val, info, FALSE)

\* lines 85-87
BuildArgs ==
    /\ pc = "build"
    /\ LET r == BuildArgsOf(git_info, hash_info)
       IN  IF r.exc # "none"
           THEN Failed(r.exc) /\ UNCHANGED build_args
           ELSE build_args' = r.val /\ pc' = "print" /\ UNCHANGED exc
    /\ UNCHANGED <<args, git_info, hash_info, version_file, pending, json_file,
                   header_file, stdout, stderr, log, raw, call>>

\* line 89: print(build_args) writes the string and the line end to sys.stdout
PrintBuildArgs ==
    /\ pc = "print"
    /\ stdout' = Append(stdout, build_args \o <<"\n">>)
    /\ log' = Append(log, "stdout")
    /\ pc' = "split"
    /\ UNCHANGED <<args, git_info, hash_info, version_file, build_args, pending,
                   json_file, header_file, stderr, exc, raw, call>>

\* line 90: shlex.split(build_args), evaluated once when the loop starts
Split ==
    /\ pc = "split"
    /\ LET r == ShlexSplit(build_args)
       IN  IF r.exc # "none"
           THEN Failed(r.exc) /\ UNCHANGED pending
           ELSE /\ pending' = r.val
                /\ pc' = IF r.val = <<>> THEN "done" ELSE "eprint"
                /\ UNCHANGED exc
    /\ UNCHANGED <<args, git_info, hash_info, version_file, build_args, json_file,
                   header_file, stdout, stderr, log, raw, call>>

\* eprint that prints to sys.stdout (print without file=sys.stderr)
eprint_to_stdout ==
    /\ pc = "eprint"
    /\ stdout' = Append(stdout, Head(pending) \o <<"\n">>)
    /\ log' = Append(log, "stdout")
    /\ pending' = Tail(pending)
    /\ pc' = IF Tail(pending) = <<>> THEN "done" ELSE "eprint"
    /\ UNCHANGED <<args, git_info, hash_info, version_file, build_args, json_file,
                   header_file, stderr, exc, raw, call>>

\* lines 90-91 and 94-95: one iteration of the loop, eprint(line)
eprint ==
    /\ pc = "eprint"
    /\ stderr' = Append(stderr, Head(pending) \o <<"\n">>)
    /\ log' = Append(log, "stderr")
    /\ pending' = Tail(pending)
    /\ pc' = IF Tail(pending) = <<>> THEN "done" ELSE "eprint"
    /\ UNCHANGED <<args, git_info, hash_info, version_file, build_args, json_file,
                   header_file, stdout, exc, raw, call>>

NoCall == [fn |-> "none", arg |-> <<>>, res |-> <<>>]

\* lines 37-44: docopt has parsed the options, nothing else has run
Init ==
    /\ pc = "collect"
    /\ args \in [json : BOOLEAN, header : BOOLEAN]
    /\ git_info = <<>>
    /\ hash_info = <<>>
    /\ version_file = <<>>
    /\ build_args = <<>>
    /\ pending = <<>>
    /\ json_file = <<>>
    /\ header_file = <<>>
    /\ stdout = <<>>
    /\ stderr = <<>>
    /\ log = <<>>
    /\ exc = "none"
    /\ raw = <<>>
    /\ call = NoCall

Next ==
    \/ Collect
    \/ WriteJson
    \/ SkipJson
    \/ Escape
    \/ HashInfo
    \/ VersionFile
    \/ WriteHeader
    \/ SkipHeader
    \/ BuildArgs
    \/ PrintBuildArgs
    \/ Split
    \/ eprint

Spec == Init /\ [][Next]_vars

----
(* The helpers called one at a time on arguments of every kind *)

HashArgs ==
    {Str(SubSeq(HexBase, 1, n)) : n \in 0..MaxHashLen}
    \cup {Str(SubSeq(<<"a", "b", "c", "d", "e", "f", "g", "h", "i", "j", "k", "l", "m", "n", "o", "p">>, 1, n)) : n \in 0..MaxHashLen}
    \cup {PyInt(123), Bytes(<<"1", "2", "3", "4", "5", "6", "7", "8", "9", "0">>)}

DictKeys == {Str(<<"a", "b", "c">>), Str(<<"g", "h", "i">>), Str(<<"A", "b", "c">>), PyInt(123)}

DictValues ==
    {Str(<<"d", "e", "f">>), Str(<<"j", "k", "l">>), Str(<<"i", "t", "'", "s">>), Str(<<"a", " ", "\"", "b", "\"">>), Str(<<"x", "\\", "y", "\n", "z">>),
     PyInt(123), PyInt(0), Bytes(<<"x", "y", "z">>)}

RECURSIVE DictsUpTo(_)
DictsUpTo(n) ==
    IF n = 0 THEN {<<>>}
    ELSE LET shorter == DictsUpTo(n - 1)
         IN  shorter \cup
             {Append(d, Item(k, v)) :
                 d \in {x \in shorter : Len(x) = n - 1},
                 k \in DictKeys, v \in DictValues}

HasUniqueKeys(d) == \A i, j \in 1..Len(d) : d[i].k = d[j].k => i = j

DictArgs == {d \in DictsUpTo(MaxEntries) : HasUniqueKeys(d)}

\* the record of one call: the function, its argument as passed, its outcome
Called(fn, arg, res) == [fn |-> fn, arg |-> arg, res |-> res]

CallStringToPartList ==
    /\ call = NoCall
    /\ \E string \in HashArgs : call' = Called("string_to_part_list", string, string_to_part_list(string))
    /\ UNCHANGED driverVars

CallGetHashArgPairs ==
    /\ call = NoCall
    /\ \E hash \in HashArgs : call' = Called("get_hash_arg_pairs", hash, get_hash_arg_pairs(hash))
    /\ UNCHANGED driverVars

CallStrDictValues ==
    /\ call = NoCall
    /\ \E dct \in DictArgs : call' = Called("str_dict_values", dct, str_dict_values(dct))
    /\ UNCHANGED driverVars

CallReprDictValues ==
    /\ call = NoCall
    /\ \E dct \in DictArgs : call' = Called("repr_dict_values", dct, repr_dict_values(dct))
    /\ UNCHANGED driverVars

CallGenBuildArgsFromDict ==
    /\ call = NoCall
    /\ \E dct \in DictArgs : call' = Called("gen_build_args_from_dict", dct, gen_build_args_from_dict(dct))
    /\ UNCHANGED driverVars

\* the caller drops the result
Forget ==
    /\ call # NoCall
    /\ call' = NoCall
    /\ UNCHANGED driverVars

NextHelpers ==
    \/ CallStringToPartList
    \/ CallGetHashArgPairs
    \/ CallStrDictValues
    \/ CallReprDictValues
    \/ CallGenBuildArgsFromDict
    \/ Forget

InitHelpers ==
    /\ Init
    /\ args = [json |-> FALSE, header |-> FALSE]

SpecHelpers == InitHelpers /\ [][NextHelpers]_vars

----
(* Vocabulary of the properties *)

\* the decimal numerals of the lengths 1..16, written out
Numerals ==
    << <<"1">>, <<"2">>, <<"3">>, <<"4">>, <<"5">>, <<"6">>, <<"7">>, <<"8">>,
       <<"9">>, <<"1", "0">>, <<"1", "1">>, <<"1", "2">>, <<"1", "3">>, <<"1", "4">>, <<"1", "5">>, <<"1", "6">> >>

PartitionName(L) == <<"G", "I", "T", "_", "C", "O", "M", "M", "I", "T", "_", "H", "A", "S", "H", "_">> \o Numerals[L] \o <<"_", "D", "I", "G", "I", "T", "S">>

\* the commit identifier of the collected record
RawHash == raw[1].v.s

\* the message of the collected record
RawMessage == raw[7].v

\* the name of the i-th entry of a run's output: the seven metadata fields,
\* prefixed and upper-cased, then the partitions of length 8, 9, ...
EntryName(i) == IF i <= 7 THEN StrUpper(<<"g", "i", "t", "_">> \o raw[i].k.s) ELSE PartitionName(i)

\* the lines of a text: the pieces between its line breaks
Breaks(text) == {i \in 1..Len(text) : text[i] = "\n"}
SplitLines(text) ==
    LET breaks == Breaks(text)
        count == Cardinality(breaks)
        nth == [k \in 0..(count + 1) |->
                   IF k = 0 THEN 0
                   ELSE IF k > count THEN Len(text) + 1
                   ELSE CHOOSE p \in breaks : Cardinality({q \in breaks : q < p}) = k - 1]
    IN  [k \in 1..(count + 1) |-> SubSeq(text, nth[k - 1] + 1, nth[k] - 1)]

StartsWith(s, p) == Len(s) >= Len(p) /\ SubSeq(s, 1, Len(p)) = p

\* a line of the form  #define NAME "..."
IsDefine(line, name) ==
    LET open == <<"#", "d", "e", "f", "i", "n", "e", " ">> \o name \o <<" ", "\"">>
    IN  /\ StartsWith(line, open)
        /\ Len(line) > Len(open)
        /\ line[Len(line)] = "\""

\* a quoted rendering without its first and last character
Unquoted(s) == SubSeq(s, 2, Len(s) - 1)

Rank(event) ==
    IF event = "json" THEN 1
    ELSE IF event = "header" THEN 2
    ELSE IF event = "stdout" THEN 3
    ELSE 4

Times(event) == Cardinality({i \in 1..Len(log) : log[i] = event})

----
(* Properties of the helpers, under SpecHelpers *)

\* C1: for a textual s of length n >= 8, get_hash_arg_pairs(s) returns exactly
\* n-7 entries, one for each L in 8..n, keyed GIT_COMMIT_HASH_<L>_DIGITS and
\* valued by the first L characters of s; the shortest value has 8 characters
\* and the longest is s itself.
C1_HashPartitions ==
    (call.fn = "get_hash_arg_pairs" /\ IsStr(call.arg) /\ Len(call.arg.s) >= 8) =>
        LET s == call.arg.s
            n == Len(s)
            pairs == call.res.val
        IN  /\ call.res.exc = "none"
            /\ Len(pairs) = n - 7
            /\ \A L \in 8..n :
                  /\ pairs[L - 7].k = Str(PartitionName(L))
                  /\ pairs[L - 7].v = Str(SubSeq(s, 1, L))
            /\ Len(pairs[1].v.s) = 8
            /\ pairs[n - 7].v.s = s

C1_Witness ==
    /\ call.fn = "get_hash_arg_pairs"
    /\ call.arg = Str(<<"a", "b", "c", "d", "e", "f", "g", "h", "i", "j">>)
    /\ call.res.exc = "none"
    /\ Len(call.res.val) = 3

\* C2: the partitioner fails with a ValueError on a string of fewer than 8
\* characters and with a TypeError on a non-textual input, returning nothing;
\* no partition shorter than 8 characters is ever produced.
C2_ShortOrNonTextFails ==
    (call.fn \in {"string_to_part_list", "get_hash_arg_pairs"}) =>
        /\ (IsStr(call.arg) /\ Len(call.arg.s) < 8) =>
              (call.res.exc = "ValueError" /\ call.res.val = <<>>)
        /\ ~IsStr(call.arg) => (call.res.exc = "TypeError" /\ call.res.val = <<>>)
        /\ \A i \in 1..Len(call.res.val) :
              IF call.fn = "string_to_part_list"
              THEN Len(call.res.val[i]) >= 8
              ELSE Len(call.res.val[i].v.s) >= 8

C2_Witness ==
    /\ call.fn = "get_hash_arg_pairs"
    /\ call.arg = Str(<<"1", "2", "3", "4", "5", "6", "7">>)
    /\ call.res.exc = "ValueError"

IsNormalizerCall ==
    /\ call.fn \in {"str_dict_values", "repr_dict_values"}
    /\ AllStrKeys(call.arg)

\* C3 as stated: the normalizer returns a new mapping with the same keys and
\* textual values, and leaves the mapping passed in unchanged.
C3_NewMappingArgumentUnchanged ==
    IsNormalizerCall =>
        /\ call.res.exc = "none"
        /\ Keys(call.res.val) = Keys(call.arg)
        /\ AllStrValues(call.res.val)
        /\ call.res.after = call.arg

\* C3 as amended: the normalizer returns the mapping passed in, with the same
\* keys, after replacing every value of it, in place, by a textual one.
C3_SameMappingUpdatedInPlace ==
    IsNormalizerCall =>
        /\ call.res.exc = "none"
        /\ Keys(call.res.val) = Keys(call.arg)
        /\ AllStrValues(call.res.val)
        /\ call.res.same
        /\ call.res.after = call.res.val

C3_Witness ==
    /\ call.fn = "str_dict_values"
    /\ call.arg = <<Item(Str(<<"a", "b", "c">>), PyInt(123)), Item(Str(<<"g", "h", "i">>), Str(<<"d", "e", "f">>))>>
    /\ call.res.same
    /\ call.res.after = <<Item(Str(<<"a", "b", "c">>), Str(<<"1", "2", "3">>)), Item(Str(<<"g", "h", "i">>), Str(<<"d", "e", "f">>))>>

\* C4: on a mapping with textual keys and values gen_build_args_from_dict
\* returns the tokens -D<upper-cased key>=<quoted value>, one per entry in
\* iteration order, joined by single spaces; on any non-textual key or value
\* it fails with a TypeError and returns no string.
C4_BuildArgs ==
    (call.fn = "gen_build_args_from_dict") =>
        LET dct == call.arg
            token(i) == <<"-", "D">> \o StrUpper(dct[i].k.s) \o <<"=">> \o PyRepr(dct[i].v.s)
        IN  IF AllStrKeys(dct) /\ AllStrValues(dct)
            THEN /\ call.res.exc = "none"
                 /\ call.res.val = Join(<<" ">>, [i \in 1..Len(dct) |-> token(i)])
                 /\ (dct = <<Item(Str(<<"a", "b", "c">>), Str(<<"d", "e", "f">>)), Item(Str(<<"g", "h", "i">>), Str(<<"j", "k", "l">>))>>)
                       => call.res.val = <<"-", "D", "A", "B", "C", "=", "'", "d", "e", "f", "'", " ", "-", "D", "G", "H", "I", "=", "'", "j", "k", "l", "'">>
            ELSE call.res.exc = "TypeError" /\ call.res.val = <<>>

C4_Witness ==
    /\ call.fn = "gen_build_args_from_dict"
    /\ call.arg = <<Item(Str(<<"a", "b", "c">>), Str(<<"d", "e", "f">>)), Item(Str(<<"g", "h", "i">>), Str(<<"j", "k", "l">>))>>
    /\ call.res.val = <<"-", "D", "A", "B", "C", "=", "'", "d", "e", "f", "'", " ", "-", "D", "G", "H", "I", "=", "'", "j", "k", "l", "'">>

----
(* Properties of the Driver, under Spec *)

\* C5: with a commit identifier of at least 8 characters the run succeeds and
\* shell-word splitting of the printed build-argument string yields one token
\* per entry, in order, each -D<NAME>= followed by the entry's value as it
\* stands between the quotes in the string; stderr receives exactly one line
\* per entry.
C5_ShellRoundTrip ==
    (raw # <<>> /\ Len(RawHash) >= 8) =>
        /\ pc # "error"
        /\ (pc = "done") =>
              LET entries == git_info \o hash_info
                  line == SubSeq(stdout[1], 1, Len(stdout[1]) - 1)
                  split == ShlexSplit(line)
              IN  /\ Len(entries) = 7 + (Len(RawHash) - 7)
                  /\ split.exc = "none"
                  /\ Len(split.val) = Len(entries)
                  /\ Len(stderr) = Len(entries)
                  /\ \A i \in 1..Len(entries) :
                        /\ split.val[i] =
                              <<"-", "D">> \o EntryName(i) \o <<"=">> \o Unquoted(PyRepr(entries[i].v.s))
                        /\ stderr[i] = split.val[i] \o <<"\n">>
                        /\ Count(stderr[i], "\n") = 1

C5_Witness ==
    /\ pc = "done"
    /\ RawMessage = Str(<<"'", " ">>)
    /\ Len(RawHash) = 9
    /\ Len(stderr) = 9

\* C6: a header file, when written, is the line #pragma once, then one
\* #define NAME "value" line for each of the seven metadata fields (NAME the
\* field name prefixed with git_ and upper-cased, GIT_COMMIT_HASH holding the
\* full identifier), then one define per partition length 8..n, nothing else;
\* a successful run with a header path has written it.
C6_HeaderFile ==
    /\ (pc = "done" /\ args.header) => header_file # <<>>
    /\ (header_file # <<>>) =>
          LET lines == SplitLines(header_file[1])
              n == Len(RawHash)
          IN  /\ n >= 8
              /\ Len(lines) = 1 + 7 + (n - 7)
              /\ lines[1] = <<"#", "p", "r", "a", "g", "m", "a", " ", "o", "n", "c", "e">>
              /\ \A i \in 1..7 : IsDefine(lines[1 + i], EntryName(i))
              /\ lines[2] = <<"#", "d", "e", "f", "i", "n", "e", " ", "G", "I", "T", "_", "C", "O", "M", "M", "I", "T", "_", "H", "A", "S", "H", " ", "\"">> \o RawHash \o <<"\"">>
              /\ \A L \in 8..n :
                    lines[1 + L] = <<"#", "d", "e", "f", "i", "n", "e", " ">> \o PartitionName(L) \o <<" ", "\"">>
                                   \o SubSeq(RawHash, 1, L) \o <<"\"">>

C6_Witness ==
    /\ pc = "done"
    /\ header_file # <<>>
    /\ Len(RawHash) = 10
    /\ RawMessage = Str(<<"\n", "\"">>)

OutputOrder ==
    /\ \A i, j \in 1..Len(log) : i < j => Rank(log[i]) <= Rank(log[j])
    /\ Times("json") <= 1
    /\ Times("header") <= 1
    /\ (pc = "done") =>
          /\ Times("json") = (IF args.json THEN 1 ELSE 0)
          /\ Times("header") = (IF args.header THEN 1 ELSE 0)

\* C7 as stated: a successful run writes stdout exactly once and stderr
\* exactly once, stdout first, both after the requested file writes.
C7_OneWriteEach ==
    /\ OutputOrder
    /\ (pc = "done") => (Len(stdout) = 1 /\ Len(stderr) = 1)

\* C7 as amended: a successful run writes stdout exactly once and stderr once
\* per build-argument token (one per entry, at least eight), the stdout write
\* before every stderr write and all of them after the requested file writes.
C7_OneStdoutWriteThenOnePerToken ==
    /\ OutputOrder
    /\ Len(stdout) = Times("stdout")
    /\ Len(stderr) = Times("stderr")
    /\ Len(stdout) <= 1
    /\ (pc = "done") =>
          /\ Len(stdout) = 1
          /\ Len(stderr) = Len(git_info) + Len(hash_info)
          /\ Len(stderr) >= 8

C7_Witness ==
    /\ pc = "done"
    /\ args.json
    /\ args.header
    /\ log = <<"json", "header", "stdout">> \o [i \in 1..10 |-> "stderr"]

\* C8: what a run prints to stdout is a single line: the build-argument
\* string holds no line break, whatever the metadata values hold.
C8_SingleLine ==
    /\ Count(build_args, "\n") = 0
    /\ (pc = "done") => Len(stdout) = 1
    /\ \A i \in 1..Len(stdout) :
          /\ Count(stdout[i], "\n") = 1
          /\ stdout[i][Len(stdout[i])] = "\n"

C8_Witness ==
    /\ pc = "done"
    /\ RawMessage = Str(<<"\n", "\n">>)
    /\ Len(stdout) = 1

\* C9: with a commit identifier of fewer than 8 characters the run ends in a
\* ValueError before the header is written and before anything is printed;
\* only the JSON file can exist, and it does exactly when --json was given.
C9_ShortHashAborts ==
    (raw # <<>> /\ Len(RawHash) < 8) =>
        /\ pc \in {"json", "escape", "hash", "error"}
        /\ header_file = <<>>
        /\ stdout = <<>>
        /\ stderr = <<>>
        /\ (json_file # <<>>) => args.json
        /\ (pc = "error") => (exc = "ValueError" /\ (json_file # <<>> <=> args.json))

C9_Witness ==
    /\ pc = "error"
    /\ exc = "ValueError"
    /\ Len(RawHash) = 7
    /\ json_file # <<>>
    /\ args.header

\* C10: for one collected record the header text computed, the line printed
\* to stdout and the lines printed to stderr are those of a run without
\* --json and --header, whichever options were given.
C10_OptionsDoNotChangeOutput ==
    (pc = "done") =>
        LET info == EscapedInfo(raw).val
            hinfo == HashInfoOf(info).val
            line == BuildArgsOf(info, hinfo).val
            tokens == ShlexSplit(line).val
        IN  /\ version_file = VersionFileOf(info, hinfo).val
            /\ stdout = <<line \o <<"\n">>>>
            /\ stderr = [i \in 1..Len(tokens) |-> tokens[i] \o <<"\n">>]

C10_Witness ==
    /\ pc = "done"
    /\ args.json
    /\ args.header
    /\ RawMessage = Bytes(<<"\\">>)
    /\ json_file # <<>>
====
